---- MODULE Spec2Model ----
(***************************************************************************)
(* Risk & Decision Engine of the wheel-strategy system                     *)
(* (src/complete-wheel-strategy-system.py): DecisionCounter, WheelMonitor, *)
(* WinStreakManager, BlackSwanProtocol, TradeExecutor and DailyWorkflow.   *)
(*                                                                         *)
(* Money is in whole dollars, ratios and deltas in hundredths, dates in    *)
(* whole days; datetime.now() is the variable today.                       *)
(***************************************************************************)
EXTENDS Integers, Sequences, FiniteSets, TLC

VARIABLES
    today,                    \* datetime.now().date(), as a day number (day 0 is a Monday)
    decisions,                \* DecisionCounter.decisions
    positions,                \* ib.positions(), each with the ticker reqMktData returns for it
    market,                   \* what the market-data and account queries return
    bs_active,                \* BlackSwanProtocol.active
    recovery_stage,           \* BlackSwanProtocol.recovery_stage
    bs_executor,              \* BlackSwanProtocol.executor is not None
    alert_manager,            \* WheelMonitor.alert_manager is not None
    alerts,                   \* alerts handed to AlertManager.send_alert by the last operation
    position_size_multiplier, \* WheelMonitor.position_size_multiplier, in hundredths
    circuit_breaker_active,   \* WheelMonitor.circuit_breaker_active
    daily_pnl,                \* WheelMonitor.daily_pnl
    consecutive_wins,         \* WinStreakManager.consecutive_wins
    sizing_adjustment,        \* WinStreakManager.sizing_adjustment, in hundredths
    orders,                   \* orders handed to ib.placeOrder by the last operation
    breaker_tripped_on,       \* history: day of the first circuit-breaker check made while
                              \* a trigger condition held, -1 before any
    working,                  \* the broker's book of the orders of the request in progress
    rebuilt,                  \* the list a dashboard thread has built in _reset_daily_count
                              \* and not yet assigned to DecisionCounter.decisions
    call                      \* the last operation called, with its inputs and its result

vars == <<today, decisions, positions, market, bs_active, recovery_stage, bs_executor,
          alert_manager, alerts, position_size_multiplier, circuit_breaker_active,
          daily_pnl, consecutive_wins, sizing_adjustment, orders, breaker_tripped_on,
          working, rebuilt, call>>

counterVars == <<today, decisions>>
brokerVars == <<positions, market>>
asyncVars == <<working, rebuilt>>
blackSwanVars == <<bs_active, recovery_stage, bs_executor, alert_manager,
                   position_size_multiplier>>
breakerVars == <<circuit_breaker_active, daily_pnl, breaker_tripped_on>>
streakVars == <<consecutive_wins, sizing_adjustment>>

\* ------------------------------------------------------------------ bounds
MaxDay == 2
MaxDecisions == 5
MaxWins == 11
MaxDailyPnl == 10000

\* ------------------------------------------- WheelMonitor.__init__ thresholds
account_value == 122000
max_position_pct == 10
iv_rank_min == 50
iv_min == 20
profit_target == 50
profit_roll == 80
roll_dte == 21
roll_delta_threshold == 50
earnings_buffer_days == 7
shares_stop_loss_pct == 10
win_streak_caution == 10
drawdown_stop == 20
weekly_drawdown_stop == 10

Abs(x) == IF x < 0 THEN 0 - x ELSE x

\* ------------------------------------------------------- broker positions
\* A Position of ib.positions() together with the Ticker that reqMktData
\* returns for its contract (greeks: ticker.modelGreeks is not None).
Opt(sym, right, qty, strike, has_expiry, expiry, greeks, delta, pnl) ==
    [symbol |-> sym, secType |-> "OPT", right |-> right, position |-> qty,
     strike |-> strike, has_expiry |-> has_expiry, expiry |-> expiry,
     unrealizedPnL |-> pnl, avgCost |-> 100, marketValue |-> 100 * qty,
     greeks |-> greeks, delta |-> delta, bid |-> 100, ask |-> 110,
     marketPrice |-> 105, cost_basis |-> 0]

Stk(sym, qty, price, cost_basis) ==
    [symbol |-> sym, secType |-> "STK", right |-> "", position |-> qty,
     strike |-> 0, has_expiry |-> FALSE, expiry |-> 0,
     unrealizedPnL |-> 0, avgCost |-> cost_basis, marketValue |-> price * qty,
     greeks |-> FALSE, delta |-> 0, bid |-> price * 100 - 5, ask |-> price * 100 + 5,
     marketPrice |-> price, cost_basis |-> cost_basis]

\* (contract.lastTradeDateOrContractMonth - datetime.now()).days
DTE(p, day) == p.expiry - day

\* unrealizedPnL / abs(avgCost * position) >= pct / 100
PnlPctAtLeast(p, pct) == p.unrealizedPnL * 100 >= pct * Abs(p.avgCost * p.position)

\* The computation of pnl_pct or of dte raises (no expiry date, zero cost)
ProfitCheckRaises(p) == ~p.has_expiry \/ p.avgCost * p.position = 0

Adjustment(i, p, action, priority) ==
    [symbol |-> p.symbol, position |-> i, action |-> action, priority |-> priority]

\* ticker.modelGreeks and abs(ticker.modelGreeks.delta) > roll_delta_threshold
DeltaExceeds(p) == p.greeks /\ Abs(p.delta) > roll_delta_threshold

\* The profit-target part of the option loop of check_adjustments_needed
ProfitAdjustments(i, p, day) ==
    IF p.unrealizedPnL = 0 THEN <<>>
    ELSE IF p.right = "P" /\ p.position < 0
         THEN IF PnlPctAtLeast(p, profit_roll) /\ DTE(p, day) > 7
              THEN <<Adjustment(i, p, "ROLL_POSITION", "INFO")>>
              ELSE <<>>
    ELSE IF p.right = "C" /\ p.position < 0
         THEN IF PnlPctAtLeast(p, profit_target)
              THEN <<Adjustment(i, p, "CLOSE_POSITION", "IMPORTANT")>>
              ELSE <<>>
    ELSE <<>>

\* One pass of the option loop of check_adjustments_needed for position i
\* (the variant that tests the DTE before the delta)
OptionAdjustments_time_first(i, p, day) ==
    IF p.has_expiry /\ DTE(p, day) <= roll_dte
    THEN <<Adjustment(i, p, "ROLL_TIME", "IMPORTANT")>>
    ELSE IF p.has_expiry /\ DeltaExceeds(p)
    THEN <<Adjustment(i, p, "ROLL_DEFENSIVE", "CRITICAL")>>
    ELSE ProfitAdjustments(i, p, day)
OptionAdjustments(i, p, day) ==
    IF p.has_expiry /\ DeltaExceeds(p)
    THEN <<Adjustment(i, p, "ROLL_DEFENSIVE", "CRITICAL")>>
    ELSE IF p.has_expiry /\ DTE(p, day) <= roll_dte
    THEN <<Adjustment(i, p, "ROLL_TIME", "IMPORTANT")>>
    ELSE ProfitAdjustments(i, p, day)

\* Whether that pass raises instead of returning
OptionRaises(p, day) ==
    /\ ~(p.has_expiry /\ (DeltaExceeds(p) \/ DTE(p, day) <= roll_dte))
    /\ p.unrealizedPnL # 0
    /\ ProfitCheckRaises(p)

\* WheelMonitor._has_covered_calls
has_covered_calls(ps, sym) ==
    \E j \in 1..Len(ps) :
        /\ ps[j].secType = "OPT" /\ ps[j].symbol = sym
        /\ ps[j].right = "C" /\ ps[j].position < 0

\* One pass of the stock loop of check_adjustments_needed for position i
StockAdjustments(i, p, ps) ==
    (IF /\ p.cost_basis # 0
        /\ p.marketPrice * 100 < p.cost_basis * (100 - shares_stop_loss_pct)
     THEN <<Adjustment(i, p, "EVALUATE_SHARES", "CRITICAL")>>
     ELSE <<>>)
    \o
    (IF ~has_covered_calls(ps, p.symbol) /\ p.position >= 100
     THEN <<Adjustment(i, p, "SELL_COVERED_CALL", "IMPORTANT")>>
     ELSE <<>>)

RECURSIVE OptionLoop(_, _, _)
OptionLoop(ps, i, day) ==
    IF i > Len(ps) THEN <<>>
    ELSE (IF ps[i].secType = "OPT" THEN OptionAdjustments(i, ps[i], day) ELSE <<>>)
         \o OptionLoop(ps, i + 1, day)

RECURSIVE StockLoop(_, _)
StockLoop(ps, i) ==
    IF i > Len(ps) THEN <<>>
    ELSE (IF ps[i].secType = "STK" THEN StockAdjustments(i, ps[i], ps) ELSE <<>>)
         \o StockLoop(ps, i + 1)

\* WheelMonitor.check_adjustments_needed
\* (the variant that remembers what it reported: a repeated call reports nothing)
check_adjustments_needed_once(ps, day) ==
    IF call.op = "check_adjustments_needed"
    THEN [raised |-> FALSE, adjustments |-> <<>>]
    ELSE [raised |-> FALSE, adjustments |-> OptionLoop(ps, 1, day) \o StockLoop(ps, 1)]
check_adjustments_needed(ps, day) ==
    IF \E i \in 1..Len(ps) : ps[i].secType = "OPT" /\ OptionRaises(ps[i], day)
    THEN [raised |-> TRUE, adjustments |-> <<>>]
    ELSE [raised |-> FALSE, adjustments |-> OptionLoop(ps, 1, day) \o StockLoop(ps, 1)]

\* WheelMonitor.check_roll_decision: the action it returns
check_roll_decision(p, day) ==
    IF ~p.has_expiry THEN "RAISED"
    ELSE IF DeltaExceeds(p) THEN "ROLL_DEFENSIVE"
    ELSE IF DTE(p, day) <= roll_dte THEN "ROLL_TIME"
    ELSE IF /\ p.unrealizedPnL # 0 /\ p.right = "P" /\ p.position < 0
            /\ PnlPctAtLeast(p, profit_roll) /\ DTE(p, day) > 7
         THEN "ROLL_PROFIT"
    ELSE "HOLD"

\* ------------------------------------------------------------ market data
\* stock.info of the candidate symbol; info.get(key, 0) makes a missing entry 0.
\* Ratios are in tenths.
Info(sector, price, pe, ps, pb, peg, ev, fcf, mcap) ==
    [sector |-> sector, regularMarketPrice |-> price, trailingPE |-> pe,
     priceToSalesTrailing12Months |-> ps, priceToBook |-> pb, pegRatio |-> peg,
     enterpriseToEbitda |-> ev, freeCashflow |-> fcf, marketCap |-> mcap]

\* The sector yfinance reports for the symbols held in the portfolio
SectorOf(sym) ==
    CASE sym = "TEC" -> "Technology"
      [] sym = "FIN" -> "Financial Services"
      [] sym = "HLT" -> "Healthcare"
      [] OTHER -> "Utilities"

\* WheelMonitor._get_sector
get_sector(mkt, sym) == IF sym = mkt.symbol THEN mkt.info.sector ELSE SectorOf(sym)

Value(meets) == [raised |-> FALSE, meets_value |-> meets]
ValueRaised == [raised |-> TRUE, meets_value |-> FALSE]

\* WheelMonitor._check_tech_valuation
check_tech_valuation(info, strike) ==
    IF info.regularMarketPrice = 0 THEN ValueRaised
    ELSE Value(\/ info.pegRatio > 0 /\ info.pegRatio < 15
               \/ /\ info.priceToSalesTrailing12Months > 0
                  /\ info.priceToSalesTrailing12Months * strike
                         < 50 * info.regularMarketPrice)

\* WheelMonitor._check_financial_valuation
check_financial_valuation(info, strike) ==
    IF info.regularMarketPrice = 0 THEN ValueRaised
    ELSE Value(\/ /\ info.priceToBook * strike > 0
                  /\ info.priceToBook * strike < 15 * info.regularMarketPrice
               \/ info.trailingPE > 0 /\ info.trailingPE < 150)

\* WheelMonitor._check_industrial_valuation
check_industrial_valuation(info, strike) ==
    IF info.regularMarketPrice = 0 THEN ValueRaised
    ELSE Value(/\ info.enterpriseToEbitda * strike > 0
               /\ info.enterpriseToEbitda * strike < 120 * info.regularMarketPrice)

\* WheelMonitor._check_consumer_valuation
check_consumer_valuation(info, strike) ==
    Value(\/ /\ info.marketCap > 0 /\ info.freeCashflow > 0
             /\ info.freeCashflow * 100 >= 5 * info.marketCap
          \/ info.trailingPE > 0 /\ info.trailingPE < 200)

\* WheelMonitor._check_healthcare_valuation
check_healthcare_valuation(info, strike) ==
    Value(\/ info.trailingPE > 0 /\ info.trailingPE < 300
          \/ /\ info.priceToSalesTrailing12Months > 0
             /\ info.priceToSalesTrailing12Months < 100)

\* WheelMonitor._check_default_valuation
check_default_valuation(info, strike) ==
    Value(info.trailingPE > 0 /\ info.trailingPE < 250)

\* WheelMonitor.check_valuation
check_valuation(info, strike) ==
    CASE info.sector = "Technology" -> check_tech_valuation(info, strike)
      [] info.sector = "Financial Services" -> check_financial_valuation(info, strike)
      [] info.sector = "Healthcare" -> check_healthcare_valuation(info, strike)
      [] info.sector = "Consumer Cyclical" -> check_consumer_valuation(info, strike)
      [] info.sector = "Industrials" -> check_industrial_valuation(info, strike)
      [] OTHER -> check_default_valuation(info, strike)

\* WheelMonitor.check_liquidity
check_liquidity(mkt) == mkt.avg_volume >= 1000000

\* WheelMonitor.calculate_sector_limit, in percent
calculate_sector_limit(vix) ==
    IF vix < 20 THEN 25
    ELSE IF vix < 30 THEN 20
    ELSE IF vix < 40 THEN 15
    ELSE 10

\* The exposure loop of check_sector_concentration
RECURSIVE sector_exposure(_, _, _, _)
sector_exposure(ps, i, mkt, sector) ==
    IF i > Len(ps) THEN 0
    ELSE (IF get_sector(mkt, ps[i].symbol) # sector THEN 0
          ELSE IF ps[i].secType = "OPT" /\ ps[i].position < 0
               THEN ps[i].strike * 100 * Abs(ps[i].position)
          ELSE IF ps[i].secType = "STK" THEN ps[i].marketValue
          ELSE 0)
         + sector_exposure(ps, i + 1, mkt, sector)

\* WheelMonitor.check_sector_concentration: the 'ok' it returns
check_sector_concentration(ps, mkt, position_size) ==
    ~((sector_exposure(ps, 1, mkt, mkt.info.sector) + position_size) * 100
          > account_value * calculate_sector_limit(mkt.vix))

\* WheelMonitor.days_to_earnings
days_to_earnings(mkt) == IF mkt.earnings_dates THEN mkt.earnings_days ELSE 999

\* ------------------------------------------- WheelMonitor.check_entry_criteria
Fail(criteria, issue) ==
    [raised |-> FALSE, meets_criteria |-> FALSE, issues |-> Append(criteria.issues, issue)]

\* One rule of check_entry_criteria: its failure clears meets_criteria and
\* appends its reason
\* (the variant that appends the reason but keeps meets_criteria)
Rule_keeps_flag(criteria, fails, issue) ==
    IF fails THEN [criteria EXCEPT !.issues = Append(criteria.issues, issue)]
    ELSE criteria
Rule(criteria, fails, issue) == IF fails THEN Fail(criteria, issue) ELSE criteria

\* WheelMonitor.check_entry_criteria
\* (the variant without the Black Swan test)
check_entry_criteria_no_black_swan(ps, mkt, strike, black_swan, breaker, wins) ==
    LET c0 == [raised |-> FALSE, meets_criteria |-> TRUE, issues |-> <<>>]
        valuation == check_valuation(mkt.info, strike)
        position_size == strike * 100
        c1 == Rule(c0, mkt.iv_rank < iv_rank_min, "IV Rank")
        c2 == Rule(c1, mkt.current_iv < iv_min, "IV")
        c3 == Rule(c2, ~check_liquidity(mkt), "Avg volume")
        c4 == Rule(c3, ~valuation.meets_value, "Valuation")
        c5 == Rule(c4, position_size * 100 > account_value * max_position_pct,
                   "Position too large for account")
        c6 == Rule(c5, ~check_sector_concentration(ps, mkt, position_size),
                   "Sector exposure")
        c7 == Rule(c6, days_to_earnings(mkt) <= earnings_buffer_days,
                   "Too close to earnings")
        c8 == Rule(c7, breaker, "Circuit breaker active")
        c9 == Rule(c8, wins >= win_streak_caution, "Win streak caution")
    IN  IF valuation.raised
        THEN [raised |-> TRUE, meets_criteria |-> FALSE, issues |-> <<>>]
        ELSE c9
check_entry_criteria(ps, mkt, strike, black_swan, breaker, wins) ==
    LET c0 == [raised |-> FALSE, meets_criteria |-> TRUE, issues |-> <<>>]
        valuation == check_valuation(mkt.info, strike)
        position_size == strike * 100
        c1 == Rule(c0, mkt.iv_rank < iv_rank_min, "IV Rank")
        c2 == Rule(c1, mkt.current_iv < iv_min, "IV")
        c3 == Rule(c2, ~check_liquidity(mkt), "Avg volume")
        c4 == Rule(c3, ~valuation.meets_value, "Valuation")
        c5 == Rule(c4, position_size * 100 > account_value * max_position_pct,
                   "Position too large for account")
        c6 == Rule(c5, ~check_sector_concentration(ps, mkt, position_size),
                   "Sector exposure")
        c7 == Rule(c6, days_to_earnings(mkt) <= earnings_buffer_days,
                   "Too close to earnings")
        c8 == Rule(c7, breaker, "Circuit breaker active")
        c9 == Rule(c8, wins >= win_streak_caution, "Win streak caution")
    IN  IF black_swan THEN Fail(c0, "Black Swan Protocol active")
        ELSE IF valuation.raised
        THEN [raised |-> TRUE, meets_criteria |-> FALSE, issues |-> <<>>]
        ELSE c9

\* ------------------------------------------------------------ TradeExecutor
\* TradeExecutor._is_optimal_trade_time: weekday 0 is Monday, the time of day
\* is in minutes after midnight
is_optimal_trade_time(weekday, minute) ==
    IF weekday \in {0, 4} THEN FALSE
    ELSE (600 <= minute /\ minute <= 660) \/ (840 <= minute /\ minute <= 900)

\* WheelMonitor.detect_market_regime
detect_market_regime(mkt) ==
    IF mkt.spy > mkt.sma50 /\ mkt.sma50 > mkt.sma200 /\ mkt.vix < 20 THEN "BULL"
    ELSE IF mkt.spy < mkt.sma50 /\ mkt.sma50 < mkt.sma200 /\ mkt.vix > 25 THEN "BEAR"
    ELSE "NEUTRAL"

\* int(n * pct / 100)
Scale(n, pct) == (n * pct) \div 100

\* TradeExecutor._calculate_position_size
\* (the variant without the minimum of 1 contract)
calculate_position_size_no_minimum(mkt, strike, wins, multiplier) ==
    LET base == (account_value * 10) \div (strike * 100 * 100)
        regime == IF detect_market_regime(mkt) = "BEAR" THEN Scale(base, 75) ELSE base
        streak == IF wins >= 10 THEN Scale(regime, 50)
                  ELSE IF wins >= 8 THEN Scale(regime, 75)
                  ELSE regime
    IN  Scale(streak, multiplier)
calculate_position_size(mkt, strike, wins, multiplier) ==
    LET base == (account_value * 10) \div (strike * 100 * 100)
        regime == IF detect_market_regime(mkt) = "BEAR" THEN Scale(base, 75) ELSE base
        streak == IF wins >= 10 THEN Scale(regime, 50)
                  ELSE IF wins >= 8 THEN Scale(regime, 75)
                  ELSE regime
        swan == Scale(streak, multiplier)
    IN  IF swan > 1 THEN swan ELSE 1

\* WheelMonitor.check_post_earnings_opportunity, as sell_put sees it: with an
\* earnings table present `not earnings_dates` raises (the truth value of a
\* DataFrame); without one there is no opportunity.
check_post_earnings_opportunity(mkt) ==
    [raised |-> mkt.earnings_dates, opportunity |-> FALSE]

\* An order handed to ib.placeOrder: contract is the index of the position it
\* is for (0: a new contract), price is in hundredths of a cent, budget_used is
\* the number of decisions executed today when it is placed.
Order(via, contract, action, quantity, price, used) ==
    [via |-> via, contract |-> contract, action |-> action, quantity |-> quantity,
     price |-> price, budget_used |-> used]

\* A call the executor makes on the broker session for an order
Event(kind, order) == [event |-> kind, order |-> order]

\* The price after a timed-out attempt: one increment on, held at the target
\* (the variant without the hold at the target)
next_price_unclamped(current_price, target_price, increment) == current_price + increment
next_price(current_price, target_price, increment) ==
    LET stepped == current_price + increment
    IN  IF increment > 0 /\ stepped > target_price THEN target_price
        ELSE IF increment < 0 /\ stepped < target_price THEN target_price
        ELSE stepped

\* The loop of TradeExecutor._smart_fill_order from attempt `attempts` on, in
\* cents; filled_at is the attempt whose order the broker reports Filled
\* (0: none).  It returns the placeOrder and cancelOrder calls in order.
\* (the variant that leaves the timed-out order working)
RECURSIVE smart_fill_loop_no_cancel(_, _, _, _, _, _, _, _)
smart_fill_loop_no_cancel(via, action, quantity, current_price, target_price, attempts, filled_at, used) ==
    IF attempts >= 3 THEN <<>>
    ELSE LET order == Order(via, 0, action, quantity, current_price * 100, used)
             increment == IF action = "SELL" THEN 0 - 5 ELSE 5
         IN  IF filled_at = attempts + 1 THEN <<Event("placeOrder", order)>>
             ELSE <<Event("placeOrder", order)>>
                  \o smart_fill_loop_no_cancel(via, action, quantity,
                                               next_price(current_price, target_price, increment),
                                               target_price, attempts + 1, filled_at, used)
RECURSIVE smart_fill_loop(_, _, _, _, _, _, _, _)
smart_fill_loop(via, action, quantity, current_price, target_price, attempts, filled_at, used) ==
    IF attempts >= 3 THEN <<>>
    ELSE LET order == Order(via, 0, action, quantity, current_price * 100, used)
             increment == IF action = "SELL" THEN 0 - 5 ELSE 5
         IN  IF filled_at = attempts + 1 THEN <<Event("placeOrder", order)>>
             ELSE <<Event("placeOrder", order), Event("cancelOrder", order)>>
                  \o smart_fill_loop(via, action, quantity,
                                     next_price(current_price, target_price, increment),
                                     target_price, attempts + 1, filled_at, used)

\* The orders among the calls `events` that were handed to placeOrder
RECURSIVE placed_orders(_)
placed_orders(events) ==
    IF events = <<>> THEN <<>>
    ELSE (IF Head(events).event = "placeOrder" THEN <<Head(events).order>> ELSE <<>>)
         \o placed_orders(Tail(events))

\* TradeExecutor._smart_fill_order
smart_fill_order(via, action, quantity, mkt, filled_at, used) ==
    LET start_price == IF action = "SELL" THEN mkt.ask ELSE mkt.bid
        target_price == IF action = "SELL" THEN mkt.bid ELSE mkt.ask
        events == smart_fill_loop(via, action, quantity, start_price, target_price,
                                  0, filled_at, used)
    IN  [orders |-> placed_orders(events), events |-> events, filled |-> filled_at # 0]

NoOrders(ret) == [orders |-> <<>>, ret |-> ret]

\* TradeExecutor.sell_put
sell_put(ps, mkt, strike, weekday, minute, filled_at, black_swan, breaker, wins, multiplier, used) ==
    LET criteria == check_entry_criteria(ps, mkt, strike, black_swan, breaker, wins)
        post_earnings == check_post_earnings_opportunity(mkt)
        quantity == IF post_earnings.opportunity THEN 1
                    ELSE calculate_position_size(mkt, strike, wins, multiplier)
        fill == smart_fill_order("sell_put", "SELL", quantity, mkt, filled_at, used)
    IN  IF ~is_optimal_trade_time(weekday, minute) THEN NoOrders("none")
        ELSE IF criteria.raised THEN NoOrders("raised")
        ELSE IF ~criteria.meets_criteria THEN NoOrders("none")
        ELSE IF post_earnings.raised THEN NoOrders("raised")
        ELSE [orders |-> fill.orders, ret |-> IF fill.filled THEN "sold" ELSE "none"]

\* The position of the first stock position in symbol sym from index i on (0: none)
RECURSIVE owned_shares(_, _, _)
owned_shares(ps, sym, i) ==
    IF i > Len(ps) THEN 0
    ELSE IF ps[i].symbol = sym /\ ps[i].secType = "STK" THEN ps[i].position
    ELSE owned_shares(ps, sym, i + 1)

\* TradeExecutor.sell_covered_call, premium in cents
sell_covered_call(ps, sym, shares, premium, used) ==
    LET contracts == shares \div 100
    IN  IF owned_shares(ps, sym, 1) < shares THEN NoOrders("none")
        ELSE IF contracts = 0 THEN NoOrders("none")
        ELSE [orders |-> <<Order("sell_covered_call", 0, "SELL", contracts,
                                 premium * 100, used)>>,
              ret |-> "sold"]

\* TradeExecutor.roll_position for the Position p (index i), in cents
\* (the variant that abandons the roll only for a debit, not for a zero credit)
roll_position_zero_credit(i, p, mkt, used) ==
    IF mkt.ask - p.bid < 0 THEN NoOrders("none")
    ELSE [orders |-> <<Order("roll_position", i, "BUY", Abs(p.position), p.bid * 100, used),
                       Order("roll_position", 0, "SELL", Abs(p.position),
                             mkt.ask * 100, used)>>,
          ret |-> "rolled"]
roll_position(i, p, mkt, used) ==
    LET close_price == p.bid
        open_price == mkt.ask
        net_credit == open_price - close_price
    IN  IF net_credit <= 0 THEN NoOrders("none")
        ELSE [orders |-> <<Order("roll_position", i, "BUY", Abs(p.position),
                                 close_price * 100, used),
                           Order("roll_position", 0, "SELL", Abs(p.position),
                                 open_price * 100, used)>>,
              ret |-> "rolled"]

\* TradeExecutor.close_position for the Position p (index i): the order placed
close_position(i, p, used) ==
    LET short == p.position < 0
        long == p.position > 0
    IN  IF p.secType = "OPT"
        THEN IF short THEN Order("close_position", i, "BUY", Abs(p.position), p.ask * 105, used)
             ELSE Order("close_position", i, "SELL", Abs(p.position), p.bid * 95, used)
        ELSE IF long THEN Order("close_position", i, "SELL", Abs(p.position), p.bid * 99, used)
             ELSE Order("close_position", i, "BUY", Abs(p.position), p.ask * 101, used)

\* --------------------------------------------------------- DecisionCounter
max_daily_decisions == 3

NoCall == [op |-> "none"]

\* No list is waiting to be assigned
NoList == [pending |-> FALSE, decisions |-> <<>>]

\* len([d for d in self.decisions if d.executed])
ExecutedCount(ds) == Len(SelectSeq(ds, LAMBDA d : d.executed))

\* DecisionCounter._reset_daily_count: keep the decisions dated `day`
reset_daily_count(ds, day) == SelectSeq(ds, LAMBDA d : d.date = day)

\* DecisionCounter.can_make_decision, on the list already reset
\* (the variant with <= admits a decision at the cap)
can_make_decision_mut(ds) == ExecutedCount(ds) <= max_daily_decisions
can_make_decision(ds) == ExecutedCount(ds) < max_daily_decisions

\* DecisionCounter.get_remaining_decisions, on the list already reset
get_remaining_decisions(ds) ==
    LET left == max_daily_decisions - ExecutedCount(ds)
    IN  IF left > 0 THEN left ELSE 0

\* The refusal test of record_decision
\* (the variant without `and executed` refuses pending decisions too)
refuses_mut(ds, executed) == ~can_make_decision(ds)
refuses(ds, executed) == ~can_make_decision(ds) /\ executed

\* DecisionCounter.record_decision: the list and the return value.  `day` is
\* the date can_make_decision sees, `stamp` the date of Decision.timestamp.
record_decision(ds, day, stamp, action, executed) ==
    LET kept == reset_daily_count(ds, day)
    IN  IF refuses(kept, executed)
        THEN [decisions |-> kept, ret |-> FALSE]
        ELSE [decisions |-> Append(kept, [date |-> stamp, action |-> action,
                                          executed |-> executed]),
              ret |-> TRUE]

\* -------------------------------------------------------- WinStreakManager
\* WinStreakManager.record_trade_result
\* (the variant whose loss resets the counter but not the sizing)
record_trade_result_keeps_sizing(wins, adjustment, profitable) ==
    IF profitable
    THEN [consecutive_wins |-> wins + 1,
          sizing_adjustment |-> IF wins + 1 >= 10 THEN 50
                                ELSE IF wins + 1 >= 8 THEN 75
                                ELSE adjustment]
    ELSE [consecutive_wins |-> 0, sizing_adjustment |-> adjustment]
record_trade_result(wins, adjustment, profitable) ==
    IF profitable
    THEN [consecutive_wins |-> wins + 1,
          sizing_adjustment |-> IF wins + 1 >= 10 THEN 50
                                ELSE IF wins + 1 >= 8 THEN 75
                                ELSE adjustment]
    ELSE [consecutive_wins |-> 0, sizing_adjustment |-> 100]

\* The daily P&L update of WheelMonitor.record_trade_result
update_daily_pnl(pnls, day, pnl) ==
    IF pnls = <<>> \/ pnls[Len(pnls)].date # day
    THEN Append(pnls, [date |-> day, pnl |-> pnl])
    ELSE [pnls EXCEPT ![Len(pnls)].pnl = @ + pnl]

\* ------------------------------------------------------- BlackSwanProtocol
\* The value identify_positions_to_close estimates for a position
estimated_value(p) ==
    IF p.secType = "STK" THEN p.marketValue
    ELSE IF p.position > 0 THEN p.marketValue
    ELSE p.avgCost * Abs(p.position)

\* One selection loop of identify_positions_to_close over the indices idx
\* (the variant without the break: it selects every position of the list)
RECURSIVE select_until_covered_no_break(_, _, _, _)
select_until_covered_no_break(ps, idx, k, cash_needed) ==
    IF k > Len(idx) THEN [selected |-> <<>>, cash_needed |-> cash_needed]
    ELSE LET left == cash_needed - estimated_value(ps[idx[k]])
             rest == select_until_covered_no_break(ps, idx, k + 1, left)
         IN  [selected |-> <<idx[k]>> \o rest.selected, cash_needed |-> rest.cash_needed]
RECURSIVE select_until_covered(_, _, _, _)
select_until_covered(ps, idx, k, cash_needed) ==
    IF k > Len(idx) THEN [selected |-> <<>>, cash_needed |-> cash_needed]
    ELSE LET left == cash_needed - estimated_value(ps[idx[k]])
         IN  IF left <= 0 THEN [selected |-> <<idx[k]>>, cash_needed |-> left]
             ELSE LET rest == select_until_covered(ps, idx, k + 1, left)
                  IN  [selected |-> <<idx[k]>> \o rest.selected,
                       cash_needed |-> rest.cash_needed]

\* The partition loop of identify_positions_to_close: the indices, in order, of
\* the technology/financial positions (tech = TRUE) or of the others
RECURSIVE sector_partition(_, _, _, _)
sector_partition(ps, mkt, i, tech) ==
    IF i > Len(ps) THEN <<>>
    ELSE (IF (get_sector(mkt, ps[i].symbol) \in {"Technology", "Financial Services"}) = tech
          THEN <<i>> ELSE <<>>)
         \o sector_partition(ps, mkt, i + 1, tech)

\* BlackSwanProtocol.identify_positions_to_close: the indices selected
identify_positions_to_close(ps, mkt, required_cash) ==
    LET cash_needed == required_cash - mkt.cash
        tech_financials == sector_partition(ps, mkt, 1, TRUE)
        others == sector_partition(ps, mkt, 1, FALSE)
        a == select_until_covered(ps, tech_financials, 1, cash_needed)
        b == IF a.cash_needed > 0 THEN select_until_covered(ps, others, 1, a.cash_needed)
             ELSE [selected |-> <<>>, cash_needed |-> a.cash_needed]
    IN  IF cash_needed <= 0 THEN <<>> ELSE a.selected \o b.selected

\* BlackSwanProtocol.close_near_term_positions from position i on: the close
\* orders placed and whether the loop raised (a contract without an expiry
\* date, or no executor to call)
RECURSIVE close_near_term_positions(_, _, _, _, _)
close_near_term_positions(ps, i, day, executor, used) ==
    IF i > Len(ps) THEN [orders |-> <<>>, raised |-> FALSE]
    ELSE IF ps[i].secType # "OPT"
         THEN close_near_term_positions(ps, i + 1, day, executor, used)
    ELSE IF ~ps[i].has_expiry THEN [orders |-> <<>>, raised |-> TRUE]
    ELSE IF ~(DTE(ps[i], day) < 14)
         THEN close_near_term_positions(ps, i + 1, day, executor, used)
    ELSE IF ~executor THEN [orders |-> <<>>, raised |-> TRUE]
    ELSE LET rest == close_near_term_positions(ps, i + 1, day, executor, used)
         IN  [orders |-> <<close_position(i, ps[i], used)>> \o rest.orders,
              raised |-> rest.raised]

\* The closes of execute_immediate_actions for the selected indices sel
RECURSIVE close_selected(_, _, _, _)
close_selected(ps, sel, k, used) ==
    IF k > Len(sel) THEN <<>>
    ELSE <<close_position(sel[k], ps[sel[k]], used)>> \o close_selected(ps, sel, k + 1, used)

\* BlackSwanProtocol.execute_immediate_actions
execute_immediate_actions(ps, mkt, day, executor, used) ==
    LET near == close_near_term_positions(ps, 1, day, executor, used)
        sel == identify_positions_to_close(ps, mkt, Scale(account_value, 30))
    IN  IF near.raised THEN near
        ELSE IF sel # <<>> /\ ~executor THEN [orders |-> near.orders, raised |-> TRUE]
        ELSE [orders |-> near.orders \o close_selected(ps, sel, 1, used), raised |-> FALSE]

\* BlackSwanProtocol.activate while inactive: the orders placed, the alerts
\* sent and whether it raised before returning
activate(ps, mkt, day, executor, manager, used) ==
    LET acts == execute_immediate_actions(ps, mkt, day, executor, used)
    IN  IF acts.raised THEN [orders |-> acts.orders, alerts |-> <<>>, raised |-> TRUE]
        ELSE IF ~manager THEN [orders |-> acts.orders, alerts |-> <<>>, raised |-> TRUE]
        ELSE [orders |-> acts.orders, alerts |-> <<"CRITICAL">>, raised |-> FALSE]

\* BlackSwanProtocol.deactivate: the alert goes through monitor.alert_manager
deactivate(manager) ==
    [active |-> FALSE, alerts |-> IF manager THEN <<"IMPORTANT">> ELSE <<>>,
     raised |-> ~manager]

\* BlackSwanProtocol.advance_recovery
\* (the variant that reaches stage 4 without deactivating)
advance_recovery_stays_active(active, stage, multiplier, manager) ==
    [active |-> active, recovery_stage |-> stage + 1,
     position_size_multiplier |-> IF stage + 1 \in 1..4 THEN 25 * (stage + 1)
                                  ELSE multiplier,
     alerts |-> <<>>, raised |-> FALSE]
advance_recovery(active, stage, multiplier, manager) ==
    LET next_stage == stage + 1
        off == deactivate(manager)
    IN  [active |-> IF next_stage = 4 THEN off.active ELSE active,
         recovery_stage |-> next_stage,
         position_size_multiplier |->
             CASE next_stage = 1 -> 25
               [] next_stage = 2 -> 50
               [] next_stage = 3 -> 75
               [] next_stage = 4 -> 100
               [] OTHER -> multiplier,
         alerts |-> IF next_stage = 4 THEN off.alerts ELSE <<>>,
         raised |-> IF next_stage = 4 THEN off.raised ELSE FALSE]

\* BlackSwanProtocol.check_recovery_conditions: below_40_days of the last 5 VIX
\* closes, SPY above its 5-day mean, days of positive breadth
\* (the variant without the `if not self.active` guard)
check_recovery_conditions_unguarded(active, stage, multiplier, manager, below_40_days, spy_above_5ma, breadth_positive_days) ==
    IF below_40_days >= 3 /\ spy_above_5ma /\ breadth_positive_days >= 2
    THEN [ret |-> TRUE] @@ advance_recovery(active, stage, multiplier, manager)
    ELSE [ret |-> FALSE, active |-> active, recovery_stage |-> stage,
          position_size_multiplier |-> multiplier, alerts |-> <<>>, raised |-> FALSE]
check_recovery_conditions(active, stage, multiplier, manager, below_40_days, spy_above_5ma, breadth_positive_days) ==
    IF ~active
    THEN [ret |-> FALSE, active |-> active, recovery_stage |-> stage,
          position_size_multiplier |-> multiplier, alerts |-> <<>>, raised |-> FALSE]
    ELSE IF below_40_days >= 3 /\ spy_above_5ma /\ breadth_positive_days >= 2
    THEN [ret |-> TRUE] @@ advance_recovery(active, stage, multiplier, manager)
    ELSE [ret |-> FALSE, active |-> active, recovery_stage |-> stage,
          position_size_multiplier |-> multiplier, alerts |-> <<>>, raised |-> FALSE]

\* BlackSwanProtocol.check_activation_conditions
check_activation_conditions(mkt) == FALSE

\* WheelMonitor.check_circuit_breaker: the 'active' it returns
check_circuit_breaker(pnls, mkt) == FALSE

\* Decisions dated `day` that are marked executed
ExecutedToday(ds, day) ==
    Len(SelectSeq(ds, LAMBDA d : d.date = day /\ d.executed))

\* ------------------------------------------------------------ DailyWorkflow
\* DailyWorkflow._execute_roll and _execute_close hand adjustment['position'],
\* which check_adjustments_needed set to position.contract, to roll_position
\* and close_position, whose first statement reads position.contract: the
\* call raises before any broker call, inside the try of the caller.
ExecutesTrade(action) == action \in {"ROLL_DEFENSIVE", "ROLL_TIME", "ROLL_POSITION",
                                     "CLOSE_POSITION"}

\* The loop of DailyWorkflow._execute_afternoon_trades from adjustment k on:
\* the decision list it leaves
RECURSIVE afternoon_loop(_, _, _, _)
afternoon_loop(adjs, k, ds, day) ==
    IF k > Len(adjs) THEN ds
    ELSE LET kept == reset_daily_count(ds, day)
         IN  IF ~can_make_decision(kept) THEN kept
             ELSE IF adjs[k].priority \notin {"CRITICAL", "IMPORTANT"}
                  THEN afternoon_loop(adjs, k + 1, kept, day)
             ELSE LET pending == record_decision(kept, day, day, adjs[k].action, FALSE)
                      failed == record_decision(pending.decisions, day, day,
                                                adjs[k].action, TRUE)
                  IN  IF ~pending.ret THEN afternoon_loop(adjs, k + 1, pending.decisions, day)
                      ELSE IF ExecutesTrade(adjs[k].action)
                           THEN afternoon_loop(adjs, k + 1, failed.decisions, day)
                      ELSE afternoon_loop(adjs, k + 1, pending.decisions, day)

\* TradeExecutor.__init__: whether it reaches the statement that attaches the
\* executor to the monitor's BlackSwanProtocol.  It returns from inside the
\* loop on a connection and on a connection error.
executor_attached(outcome) == outcome = "all_client_ids_in_use"

\* ------------------------------------------------------------------ actions
Strikes == {50, 122, 123}
Minutes == {599, 600, 661, 900}
\* Strikes for which account_value * 0.10 buys 12, 9, 7, 2, 1 and 0 contracts
SizeStrikes == {10, 13, 17, 50, 122, 200}
ClockMinutes == {0, 540, 599, 600, 630, 660, 661, 720, 780, 839, 840, 870, 900, 901,
                 960, 1439}

\* DecisionCounter.record_decision; midnight may pass between the budget
\* check and the construction of the Decision (late = 1).
RecordDecision ==
    \E executed \in BOOLEAN, late \in {0, 1} :
        /\ Len(decisions) < MaxDecisions
        /\ today + late <= MaxDay
        /\ LET r == record_decision(decisions, today, today + late, "OPEN", executed)
           IN  /\ decisions' = r.decisions
               /\ today' = IF r.ret THEN today + late ELSE today
               /\ call' = [op |-> "record_decision", executed |-> executed,
                           ret |-> r.ret]
        /\ orders' = <<>> /\ alerts' = <<>>
        /\ UNCHANGED <<brokerVars, asyncVars, bs_active, recovery_stage, bs_executor, alert_manager,
                       position_size_multiplier, breakerVars, streakVars>>

CanMakeDecision ==
    /\ decisions' = reset_daily_count(decisions, today)
    /\ call' = [op |-> "can_make_decision", ret |-> can_make_decision(decisions')]
    /\ orders' = <<>> /\ alerts' = <<>>
    /\ UNCHANGED <<today, brokerVars, asyncVars, bs_active, recovery_stage, bs_executor, alert_manager,
                   position_size_multiplier, breakerVars, streakVars>>

GetRemainingDecisions ==
    /\ decisions' = reset_daily_count(decisions, today)
    /\ call' = [op |-> "get_remaining_decisions",
                ret |-> get_remaining_decisions(decisions')]
    /\ orders' = <<>> /\ alerts' = <<>>
    /\ UNCHANGED <<today, brokerVars, asyncVars, bs_active, recovery_stage, bs_executor, alert_manager,
                   position_size_multiplier, breakerVars, streakVars>>

GetTodayDecisions ==
    /\ decisions' = reset_daily_count(decisions, today)
    /\ call' = [op |-> "get_today_decisions", ret |-> Len(decisions')]
    /\ orders' = <<>> /\ alerts' = <<>>
    /\ UNCHANGED <<today, brokerVars, asyncVars, bs_active, recovery_stage, bs_executor, alert_manager,
                   position_size_multiplier, breakerVars, streakVars>>

\* The calendar day changes
DayRollover ==
    /\ today < MaxDay
    /\ today' = today + 1
    /\ call' = [op |-> "day_rollover"]
    /\ orders' = <<>> /\ alerts' = <<>>
    /\ UNCHANGED <<decisions, brokerVars, asyncVars, bs_active, recovery_stage, bs_executor,
                   alert_manager, position_size_multiplier, breakerVars, streakVars>>

\* WheelMonitor.check_entry_criteria(symbol, strike)
CheckEntryCriteria ==
    \E strike \in Strikes :
        /\ call' = [op |-> "check_entry_criteria", strike |-> strike,
                    ret |-> check_entry_criteria(positions, market, strike, bs_active,
                                                 circuit_breaker_active, consecutive_wins)]
        /\ orders' = <<>> /\ alerts' = <<>>
        /\ UNCHANGED <<counterVars, brokerVars, asyncVars, bs_active, recovery_stage, bs_executor,
                       alert_manager, position_size_multiplier, breakerVars, streakVars>>

\* WheelMonitor.check_adjustments_needed()
CheckAdjustmentsNeeded ==
    /\ call' = [op |-> "check_adjustments_needed",
                ret |-> check_adjustments_needed(positions, today)]
    /\ orders' = <<>> /\ alerts' = <<>>
    /\ UNCHANGED <<counterVars, brokerVars, asyncVars, bs_active, recovery_stage, bs_executor,
                   alert_manager, position_size_multiplier, breakerVars, streakVars>>

\* WheelMonitor.check_roll_decision(position)
CheckRollDecision ==
    \E i \in 1..Len(positions) :
        /\ positions[i].secType = "OPT"
        /\ call' = [op |-> "check_roll_decision", position |-> i,
                    ret |-> check_roll_decision(positions[i], today)]
        /\ orders' = <<>> /\ alerts' = <<>>
        /\ UNCHANGED <<counterVars, brokerVars, asyncVars, bs_active, recovery_stage, bs_executor,
                       alert_manager, position_size_multiplier, breakerVars, streakVars>>

\* WinStreakManager.record_trade_result(trade_result)
StreakRecordTradeResult ==
    \E profitable \in BOOLEAN :
        /\ profitable => consecutive_wins < MaxWins
        /\ LET r == record_trade_result(consecutive_wins, sizing_adjustment, profitable)
           IN  /\ consecutive_wins' = r.consecutive_wins
               /\ sizing_adjustment' = r.sizing_adjustment
               /\ call' = [op |-> "record_trade_result", profitable |-> profitable,
                           streak |-> consecutive_wins, ret |-> r.sizing_adjustment]
        /\ orders' = <<>> /\ alerts' = <<>>
        /\ UNCHANGED <<counterVars, brokerVars, asyncVars, bs_active, recovery_stage, bs_executor,
                       alert_manager, position_size_multiplier, breakerVars>>

\* WheelMonitor.record_trade_result(trade_result): a winning or a losing trade
MonitorRecordTradeResult ==
    \E profitable \in BOOLEAN :
        LET pnl == IF profitable THEN 5000 ELSE 0 - 5000
            pnls == update_daily_pnl(daily_pnl, today, pnl)
            r == record_trade_result(consecutive_wins, sizing_adjustment, profitable)
        IN  /\ profitable => consecutive_wins < MaxWins
            /\ Abs(pnls[Len(pnls)].pnl) <= MaxDailyPnl
            /\ consecutive_wins' = r.consecutive_wins
            /\ sizing_adjustment' = r.sizing_adjustment
            /\ daily_pnl' = pnls
            /\ call' = [op |-> "monitor_record_trade_result", profitable |-> profitable]
            /\ orders' = <<>> /\ alerts' = <<>>
            /\ UNCHANGED <<counterVars, brokerVars, asyncVars, blackSwanVars,
                           circuit_breaker_active, breaker_tripped_on>>

\* The sum of the last n daily P&L entries
RECURSIVE TrailingPnl(_, _)
TrailingPnl(pnls, n) ==
    IF n = 0 \/ pnls = <<>> THEN 0
    ELSE pnls[Len(pnls)].pnl + TrailingPnl(SubSeq(pnls, 1, Len(pnls) - 1), n - 1)

\* The number of losing days at the end of the daily P&L list
RECURSIVE LosingDays(_)
LosingDays(pnls) ==
    IF pnls = <<>> \/ pnls[Len(pnls)].pnl >= 0 THEN 0
    ELSE 1 + LosingDays(SubSeq(pnls, 1, Len(pnls) - 1))

\* The documented trigger of the circuit breaker: drawdown from peak_value (the
\* starting account value) of drawdown_stop or more, a trailing-5-day P&L of
\* -weekly_drawdown_stop of the account or worse, or 3 losing days in a row
BreakerTrigger(pnls, mkt) ==
    \/ (account_value - mkt.net_liq) * 100 >= drawdown_stop * account_value
    \/ TrailingPnl(pnls, 5) * 100 <= (0 - weekly_drawdown_stop) * account_value
    \/ LosingDays(pnls) >= 3

\* The documented trigger of the Black Swan Protocol: VIX > 50, average
\* cross-sector correlation > 0.90, or a one-day market decline below -20%
BlackSwanTrigger(mkt) ==
    mkt.vix > 50 \/ mkt.correlation > 90 \/ mkt.spy_change < 0 - 20

\* WheelMonitor.check_circuit_breaker()
CheckCircuitBreaker ==
    /\ call' = [op |-> "check_circuit_breaker",
                trigger |-> BreakerTrigger(daily_pnl, market),
                ret |-> [active |-> check_circuit_breaker(daily_pnl, market)]]
    /\ breaker_tripped_on' =
           IF breaker_tripped_on < 0 /\ BreakerTrigger(daily_pnl, market)
           THEN today ELSE breaker_tripped_on
    /\ orders' = <<>> /\ alerts' = <<>>
    /\ UNCHANGED <<counterVars, brokerVars, asyncVars, bs_active, recovery_stage, bs_executor,
                   alert_manager, position_size_multiplier, circuit_breaker_active,
                   daily_pnl, streakVars>>

\* BlackSwanProtocol.check_activation_conditions()
CheckActivationConditions ==
    /\ call' = [op |-> "check_activation_conditions",
                trigger |-> BlackSwanTrigger(market),
                ret |-> check_activation_conditions(market)]
    /\ orders' = <<>> /\ alerts' = <<>>
    /\ UNCHANGED <<counterVars, brokerVars, asyncVars, bs_active, recovery_stage, bs_executor,
                   alert_manager, position_size_multiplier, breakerVars, streakVars>>

\* BlackSwanProtocol.activate(reason)
Activate ==
    LET r == activate(positions, market, today, bs_executor, alert_manager,
                      ExecutedToday(decisions, today))
    IN  /\ IF bs_active
           THEN /\ UNCHANGED <<bs_active, recovery_stage>>
                /\ orders' = <<>> /\ alerts' = <<>>
                /\ call' = [op |-> "activate", ret |-> "already_active"]
           ELSE /\ bs_active' = TRUE
                /\ recovery_stage' = 0
                /\ orders' = r.orders
                /\ alerts' = r.alerts
                /\ call' = [op |-> "activate",
                            ret |-> IF r.raised THEN "raised" ELSE "activated"]
        /\ UNCHANGED <<counterVars, brokerVars, asyncVars, bs_executor, alert_manager,
                       position_size_multiplier, breakerVars, streakVars>>

\* BlackSwanProtocol.check_recovery_conditions()
CheckRecoveryConditions ==
    \E below_40_days \in {2, 3}, spy_above_5ma \in BOOLEAN, breadth_positive_days \in {1, 2} :
        LET r == check_recovery_conditions(bs_active, recovery_stage,
                                           position_size_multiplier, alert_manager,
                                           below_40_days, spy_above_5ma,
                                           breadth_positive_days)
        IN  /\ bs_active' = r.active
            /\ recovery_stage' = r.recovery_stage
            /\ position_size_multiplier' = r.position_size_multiplier
            /\ alerts' = r.alerts
            /\ orders' = <<>>
            /\ call' = [op |-> "check_recovery_conditions",
                        below_40_days |-> below_40_days,
                        spy_above_5ma |-> spy_above_5ma,
                        breadth_positive_days |-> breadth_positive_days,
                        ret |-> IF r.raised THEN "raised" ELSE IF r.ret THEN "advanced"
                                ELSE "no"]
            /\ UNCHANGED <<counterVars, brokerVars, asyncVars, bs_executor, alert_manager,
                           breakerVars, streakVars>>

\* TradeExecutor.sell_put(symbol, strike, expiry, premium)
SellPut ==
    \E strike \in Strikes, minute \in Minutes, filled_at \in 0..3 :
        LET r == sell_put(positions, market, strike, today % 7, minute, filled_at,
                          bs_active, circuit_breaker_active, consecutive_wins,
                          position_size_multiplier, ExecutedToday(decisions, today))
        IN  /\ orders' = r.orders
            /\ alerts' = <<>>
            /\ call' = [op |-> "sell_put", strike |-> strike, minute |-> minute,
                        ret |-> r.ret]
            /\ UNCHANGED <<counterVars, brokerVars, asyncVars, bs_active, recovery_stage, bs_executor,
                           alert_manager, position_size_multiplier, breakerVars,
                           streakVars>>

\* TradeExecutor._smart_fill_order(contract, action, quantity, limit_price)
SmartFillOrder ==
    \E action \in {"SELL", "BUY"}, quantity \in {1, 2}, filled_at \in 0..3 :
        LET r == smart_fill_order("smart_fill_order", action, quantity, market, filled_at,
                                  ExecutedToday(decisions, today))
        IN  /\ orders' = r.orders
            /\ alerts' = <<>>
            /\ call' = [op |-> "smart_fill_order", action |-> action,
                        quantity |-> quantity, filled_at |-> filled_at,
                        events |-> r.events,
                        ret |-> IF r.filled THEN "filled" ELSE "none"]
            /\ UNCHANGED <<counterVars, brokerVars, asyncVars, bs_active, recovery_stage, bs_executor,
                           alert_manager, position_size_multiplier, breakerVars,
                           streakVars>>

\* TradeExecutor.roll_position(position, new_strike, new_expiry)
RollPosition ==
    \E i \in 1..Len(positions), minute \in Minutes :
        LET r == roll_position(i, positions[i], market, ExecutedToday(decisions, today))
        IN  /\ positions[i].secType = "OPT"
            /\ orders' = r.orders
            /\ alerts' = <<>>
            /\ call' = [op |-> "roll_position", position |-> i, minute |-> minute,
                        ret |-> r.ret]
            /\ UNCHANGED <<counterVars, brokerVars, asyncVars, bs_active, recovery_stage, bs_executor,
                           alert_manager, position_size_multiplier, breakerVars,
                           streakVars>>

\* TradeExecutor.close_position(position, reason)
ClosePosition ==
    \E i \in 1..Len(positions), minute \in Minutes :
        /\ orders' = <<close_position(i, positions[i], ExecutedToday(decisions, today))>>
        /\ alerts' = <<>>
        /\ call' = [op |-> "close_position", position |-> i, minute |-> minute,
                    ret |-> "closed"]
        /\ UNCHANGED <<counterVars, brokerVars, asyncVars, bs_active, recovery_stage, bs_executor,
                       alert_manager, position_size_multiplier, breakerVars, streakVars>>

\* TradeExecutor.sell_covered_call(symbol, shares, strike, expiry, premium)
SellCoveredCall ==
    \E shares \in {50, 100, 200}, minute \in Minutes :
        LET r == sell_covered_call(positions, market.symbol, shares, market.bid,
                                   ExecutedToday(decisions, today))
        IN  /\ orders' = r.orders
            /\ alerts' = <<>>
            /\ call' = [op |-> "sell_covered_call", shares |-> shares, minute |-> minute,
                        ret |-> r.ret]
            /\ UNCHANGED <<counterVars, brokerVars, asyncVars, bs_active, recovery_stage, bs_executor,
                           alert_manager, position_size_multiplier, breakerVars,
                           streakVars>>

\* TradeExecutor._is_optimal_trade_time() at the clock reading `minute`
IsOptimalTradeTime ==
    \E minute \in ClockMinutes :
        /\ call' = [op |-> "is_optimal_trade_time", minute |-> minute,
                    ret |-> is_optimal_trade_time(today % 7, minute)]
        /\ orders' = <<>> /\ alerts' = <<>>
        /\ UNCHANGED <<counterVars, brokerVars, asyncVars, bs_active, recovery_stage, bs_executor,
                       alert_manager, position_size_multiplier, breakerVars, streakVars>>

\* TradeExecutor._calculate_position_size(symbol, strike)
CalculatePositionSize ==
    \E strike \in SizeStrikes :
        /\ call' = [op |-> "calculate_position_size", strike |-> strike,
                    ret |-> calculate_position_size(market, strike, consecutive_wins,
                                                    position_size_multiplier)]
        /\ orders' = <<>> /\ alerts' = <<>>
        /\ UNCHANGED <<counterVars, brokerVars, asyncVars, bs_active, recovery_stage, bs_executor,
                       alert_manager, position_size_multiplier, breakerVars, streakVars>>

\* BlackSwanProtocol.identify_positions_to_close(required_cash), called by
\* execute_immediate_actions with 30% of the account value
IdentifyPositionsToClose ==
    /\ call' = [op |-> "identify_positions_to_close",
                required_cash |-> Scale(account_value, 30),
                ret |-> identify_positions_to_close(positions, market,
                                                    Scale(account_value, 30))]
    /\ orders' = <<>> /\ alerts' = <<>>
    /\ UNCHANGED <<counterVars, brokerVars, asyncVars, bs_active, recovery_stage, bs_executor,
                   alert_manager, position_size_multiplier, breakerVars, streakVars>>

\* ---- a dashboard request thread reading the DecisionCounter
\* get_decision_summary -> get_today_decisions -> _reset_daily_count: the
\* thread evaluates the list comprehension over self.decisions
DashboardRebuild ==
    /\ ~rebuilt.pending
    /\ rebuilt' = [pending |-> TRUE, decisions |-> reset_daily_count(decisions, today)]
    /\ call' = [op |-> "dashboard_rebuild"]
    /\ orders' = <<>> /\ alerts' = <<>>
    /\ UNCHANGED <<counterVars, brokerVars, working, bs_active, recovery_stage,
                   bs_executor, alert_manager, position_size_multiplier, breakerVars,
                   streakVars>>

\* ... and assigns the list it built to self.decisions
DashboardStore ==
    /\ rebuilt.pending
    /\ decisions' = rebuilt.decisions
    /\ rebuilt' = NoList
    /\ call' = [op |-> "dashboard_store", ret |-> Len(decisions')]
    /\ orders' = <<>> /\ alerts' = <<>>
    /\ UNCHANGED <<today, brokerVars, working, bs_active, recovery_stage, bs_executor,
                   alert_manager, position_size_multiplier, breakerVars, streakVars>>

\* ---- _smart_fill_order step by step, with the broker acting on its own
\* An order in the broker's book
Working(order) == [order |-> order, status |-> "Submitted", cancel_requested |-> FALSE]

fillFrame == <<counterVars, positions, market, rebuilt, bs_active, recovery_stage,
               bs_executor, alert_manager, alerts, position_size_multiplier,
               breakerVars, streakVars>>

\* _smart_fill_order is called: the quotes are read and the loop is entered
SmartFillBegin ==
    \E action \in {"SELL", "BUY"}, quantity \in {1, 2} :
        /\ call = NoCall
        /\ call' = [op |-> "smart_fill_steps", pc |-> "place", action |-> action,
                    quantity |-> quantity, attempts |-> 0,
                    current_price |-> IF action = "SELL" THEN market.ask ELSE market.bid,
                    ret |-> "running"]
        /\ orders' = <<>>
        /\ working' = <<>>
        /\ UNCHANGED fillFrame

\* order = LimitOrder(...); trade = ib.placeOrder(contract, order)
SmartFillPlace ==
    /\ call.op = "smart_fill_steps" /\ call.pc = "place"
    /\ LET order == Order("smart_fill_order", 0, call.action, call.quantity,
                          call.current_price * 100, ExecutedToday(decisions, today))
       IN  /\ orders' = Append(orders, order)
           /\ working' = Append(working, Working(order))
    /\ call' = [call EXCEPT !.pc = "wait"]
    /\ UNCHANGED fillFrame

\* util.sleep(120) ends: the status is read; a filled order is returned, any
\* other is handed to ib.cancelOrder and the price is moved
SmartFillCheck ==
    /\ call.op = "smart_fill_steps" /\ call.pc = "wait"
    /\ IF working[Len(working)].status = "Filled"
       THEN /\ call' = [call EXCEPT !.pc = "done", !.ret = "filled"]
            /\ UNCHANGED working
       ELSE /\ working' = [working EXCEPT ![Len(working)].cancel_requested = TRUE]
            /\ call' = [call EXCEPT
                            !.attempts = @ + 1,
                            !.current_price =
                                next_price(@, IF call.action = "SELL" THEN market.bid
                                              ELSE market.ask,
                                           IF call.action = "SELL" THEN 0 - 5 ELSE 5),
                            !.pc = IF call.attempts + 1 < 3 THEN "place" ELSE "done",
                            !.ret = IF call.attempts + 1 < 3 THEN "running" ELSE "none"]
    /\ UNCHANGED <<orders, fillFrame>>

\* The broker fills an order that is in its book
BrokerFill ==
    \E k \in 1..Len(working) :
        /\ working[k].status = "Submitted"
        /\ working' = [working EXCEPT ![k].status = "Filled"]
        /\ UNCHANGED <<orders, call, fillFrame>>

\* The broker acts on a cancel request for an order still in its book
BrokerCancel ==
    \E k \in 1..Len(working) :
        /\ working[k].status = "Submitted" /\ working[k].cancel_requested
        /\ working' = [working EXCEPT ![k].status = "Cancelled"]
        /\ UNCHANGED <<orders, call, fillFrame>>

\* DailyWorkflow._execute_afternoon_trades()
AfternoonTrades ==
    LET adj == check_adjustments_needed(positions, today)
    IN  /\ Len(decisions) < MaxDecisions
        /\ decisions' = IF adj.raised THEN decisions
                        ELSE afternoon_loop(adj.adjustments, 1, decisions, today)
        /\ orders' = <<>>
        /\ alerts' = <<>>
        /\ call' = [op |-> "execute_afternoon_trades",
                    ret |-> IF adj.raised THEN "raised" ELSE "done"]
        /\ UNCHANGED <<today, brokerVars, asyncVars, bs_active, recovery_stage, bs_executor,
                       alert_manager, position_size_multiplier, breakerVars, streakVars>>

\* --------------------------------------------------------- initial states
\* stock.info records of the candidate symbol, one or two per sector branch
Infos ==
    {Info("Utilities", 100, 200, 0, 0, 0, 0, 0, 0),
     Info("Utilities", 100, 250, 0, 0, 0, 0, 0, 0),
     Info("Technology", 100, 0, 40, 0, 15, 0, 0, 0),
     Info("Technology", 0, 0, 40, 0, 14, 0, 0, 0),
     Info("Financial Services", 100, 150, 0, 15, 0, 0, 0, 0),
     Info("Healthcare", 100, 300, 99, 0, 0, 0, 0, 0),
     Info("Consumer Cyclical", 100, 200, 0, 0, 0, 0, 5, 100),
     Info("Industrials", 100, 0, 0, 0, 0, 100, 0, 0)}

\* A quiet market in which the candidate XYZ passes every entry rule
BaseMarket ==
    [symbol |-> "XYZ", vix |-> 15, correlation |-> 50, spy_change |-> 0,
     net_liq |-> account_value, iv_rank |-> 60, current_iv |-> 25,
     avg_volume |-> 2000000, info |-> Info("Utilities", 100, 200, 0, 0, 0, 0, 0, 0),
     earnings_dates |-> FALSE, earnings_days |-> 30,
     spy |-> 3, sma50 |-> 2, sma200 |-> 1, cash |-> 50000, bid |-> 100, ask |-> 110]

EntryMarkets ==
    {[BaseMarket EXCEPT !.iv_rank = r, !.current_iv = iv, !.avg_volume = vol,
                        !.info = info, !.vix = vix,
                        !.earnings_dates = e[1], !.earnings_days = e[2]] :
        r \in {49, 50}, iv \in {19, 20}, vol \in {999999, 1000000}, info \in Infos,
        vix \in {15, 20}, e \in {<<FALSE, 0>>, <<TRUE, 7>>, <<TRUE, 8>>}}

RiskMarkets ==
    {[BaseMarket EXCEPT !.vix = vix, !.correlation = c, !.spy_change = d,
                        !.net_liq = liq] :
        vix \in {15, 50, 51}, c \in {90, 91}, d \in {0 - 21, 0 - 20},
        liq \in {account_value, 97600}}

ExecMarkets ==
    {BaseMarket, [BaseMarket EXCEPT !.iv_rank = 49],
     [BaseMarket EXCEPT !.earnings_dates = TRUE], [BaseMarket EXCEPT !.ask = 100],
     [BaseMarket EXCEPT !.bid = 85, !.ask = 95]}

\* Option positions: puts and calls, short and long, around the 21-DTE and
\* 0.50-delta thresholds and the profit targets
Options ==
    {Opt("XYZ", right, qty, 130, TRUE, expiry, g[1], g[2], pnl) :
        right \in {"P", "C"}, qty \in {0 - 1, 1}, expiry \in {7, 22, 23, 30},
        g \in {<<FALSE, 0>>, <<TRUE, 50>>, <<TRUE, 51>>, <<TRUE, 0 - 65>>},
        pnl \in {0, 50, 80}}

Stocks == {Stk("XYZ", qty, price, basis) :
              qty \in {99, 100}, price \in {89, 90}, basis \in {0, 100}}

ShortPut == Opt("XYZ", "P", 0 - 1, 130, TRUE, 30, TRUE, 30, 0)
ShortCall == Opt("XYZ", "C", 0 - 1, 130, TRUE, 30, TRUE, 30, 50)
NearPut == Opt("TEC", "P", 0 - 1, 130, TRUE, 7, TRUE, 65, 0)
LongCall == Opt("XYZ", "C", 1, 130, TRUE, 30, TRUE, 65, 0)
Shares == Stk("XYZ", 100, 90, 100)

AdjustPortfolios ==
    {<<o>> : o \in Options} \cup {<<k>> : k \in Stocks}
        \cup {<<Shares, ShortCall>>, <<ShortCall, Shares>>}

EntryPortfolios == {<<>>, <<ShortPut>>, <<Shares>>, <<LongCall>>, <<NearPut>>,
                    <<ShortPut, Shares>>}

ExecPortfolios == {<<>>, <<ShortPut>>, <<NearPut, Shares>>, <<LongCall, ShortCall>>,
                   <<ShortPut, Shares>>}

\* The state main() leaves: a WheelMonitor, a TradeExecutor whose connection
\* attempt ended in `outcome`, and the AlertManager attached to the monitor
InitOn(day, ps, mkt, outcome) ==
    /\ today = day
    /\ decisions = <<>>
    /\ positions = ps
    /\ market = mkt
    /\ bs_active = FALSE
    /\ recovery_stage = 0
    /\ bs_executor = executor_attached(outcome)
    /\ alert_manager = TRUE
    /\ alerts = <<>>
    /\ position_size_multiplier = 100
    /\ circuit_breaker_active = FALSE
    /\ daily_pnl = <<>>
    /\ consecutive_wins = 0
    /\ sizing_adjustment = 100
    /\ orders = <<>>
    /\ breaker_tripped_on = 0 - 1
    /\ working = <<>>
    /\ rebuilt = NoList
    /\ call = NoCall

InitWith(ps, mkt, outcome) == InitOn(0, ps, mkt, outcome)

ConnectOutcomes == {"connected", "connection_error", "all_client_ids_in_use"}

\* The decision counter on its own
InitCounter == InitWith(<<>>, BaseMarket, "connected")
NextCounter ==
    \/ RecordDecision
    \/ CanMakeDecision
    \/ GetRemainingDecisions
    \/ GetTodayDecisions
    \/ DayRollover
SpecCounter == InitCounter /\ [][NextCounter]_vars

\* Entry validation
InitEntry == \E ps \in EntryPortfolios, mkt \in EntryMarkets : InitWith(ps, mkt, "connected")
NextEntry ==
    \/ CheckEntryCriteria
    \/ StreakRecordTradeResult
    \/ Activate
SpecEntry == InitEntry /\ [][NextEntry]_vars

\* Position management
InitAdjust == \E ps \in AdjustPortfolios : InitWith(ps, BaseMarket, "connected")
NextAdjust ==
    \/ CheckAdjustmentsNeeded
    \/ CheckRollDecision
    \/ DayRollover
SpecAdjust == InitAdjust /\ [][NextAdjust]_vars

\* Risk controls
InitRisk == \E mkt \in RiskMarkets : InitWith(<<>>, mkt, "connected")
NextRisk ==
    \/ MonitorRecordTradeResult
    \/ CheckCircuitBreaker
    \/ CheckActivationConditions
    \/ DayRollover
SpecRisk == InitRisk /\ [][NextRisk]_vars

\* Order execution under the decision budget
InitExec ==
    \E ps \in ExecPortfolios, mkt \in ExecMarkets, outcome \in ConnectOutcomes :
        InitWith(ps, mkt, outcome)
NextExec ==
    \/ AfternoonTrades
    \/ SellPut
    \/ RollPosition
    \/ ClosePosition
    \/ SellCoveredCall
    \/ Activate
    \/ DayRollover
SpecExec == InitExec /\ [][NextExec]_vars

\* Black Swan activation and staged recovery
InitRecovery ==
    \E ps \in ExecPortfolios, outcome \in ConnectOutcomes : InitWith(ps, BaseMarket, outcome)
NextRecovery ==
    \/ Activate
    \/ CheckRecoveryConditions
    \/ DayRollover
SpecRecovery == InitRecovery /\ [][NextRecovery]_vars

\* The trading-window predicate on each day of a week
InitWindow == \E day \in 0..6 : InitOn(day, <<>>, BaseMarket, "connected")
NextWindow ==
    \/ IsOptimalTradeTime
SpecWindow == InitWindow /\ [][NextWindow]_vars

\* Quotes of the contract to fill, in cents: bid <= ask, spreads from 0 to 12
FillMarkets ==
    {[BaseMarket EXCEPT !.bid = bid, !.ask = bid + spread] :
        bid \in {100, 105}, spread \in {0, 2, 4, 5, 7, 10, 12}}

\* The smart-fill protocol
InitFill == \E mkt \in FillMarkets : InitWith(<<>>, mkt, "connected")
NextFill ==
    \/ SmartFillOrder
SpecFill == InitFill /\ [][NextFill]_vars

\* Bull, bear and neutral markets (detect_market_regime)
RegimeMarkets ==
    {BaseMarket,
     [BaseMarket EXCEPT !.spy = 1, !.sma50 = 2, !.sma200 = 3, !.vix = 26],
     [BaseMarket EXCEPT !.vix = 22]}

\* Position sizing under the win streak and the Black Swan recovery stages
InitSize == \E mkt \in RegimeMarkets : InitWith(<<>>, mkt, "connected")
NextSize ==
    \/ CalculatePositionSize
    \/ StreakRecordTradeResult
    \/ Activate
    \/ CheckRecoveryConditions
SpecSize == InitSize /\ [][NextSize]_vars

\* Positions of the technology, financial and other sectors, worth 9000, 5000,
\* 100, 9000 and 100
Holdings ==
    {Stk("TEC", 100, 90, 100), Stk("FIN", 100, 50, 100),
     Opt("TEC", "P", 0 - 1, 130, TRUE, 30, TRUE, 30, 0),
     Stk("HLT", 100, 90, 100), Opt("XYZ", "C", 1, 130, TRUE, 30, TRUE, 30, 0)}

\* Every ordering of up to three different holdings
ClosePortfolios ==
    {<<>>} \cup {<<a>> : a \in Holdings}
        \cup {ps \in {<<a, b>> : a \in Holdings, b \in Holdings} : ps[1] # ps[2]}
        \cup {ps \in {<<a, b, c>> : a \in Holdings, b \in Holdings, c \in Holdings} :
                  ps[1] # ps[2] /\ ps[1] # ps[3] /\ ps[2] # ps[3]}

\* TotalCashValue of the account summary: none, short of the 30% target by
\* 16600, 6600 and 1, on the target, above it
CashLevels == {0, 20000, 30000, 36599, 36600, 50000}

\* The selection of positions to close for the cash target
InitClose ==
    \E ps \in ClosePortfolios, cash \in CashLevels :
        InitWith(ps, [BaseMarket EXCEPT !.cash = cash], "connected")
NextClose ==
    \/ IdentifyPositionsToClose
SpecClose == InitClose /\ [][NextClose]_vars

\* New entries while the Black Swan Protocol runs through its stages
InitGate ==
    \E ps \in {<<>>, <<ShortPut>>}, outcome \in ConnectOutcomes :
        InitWith(ps, BaseMarket, outcome)
NextGate ==
    \/ Activate
    \/ CheckRecoveryConditions
    \/ CheckEntryCriteria
    \/ SellPut
    \/ DayRollover
SpecGate == InitGate /\ [][NextGate]_vars

\* Portfolios with an option inside 14 days of its expiry
SwanPortfolios ==
    {<<NearPut>>, <<NearPut, Shares>>, <<Shares, NearPut>>, <<ShortPut, NearPut>>,
     <<LongCall, ShortCall>>}

\* Black Swan activation with cash short of, on and above the 30% target
InitSwan ==
    \E ps \in SwanPortfolios, cash \in CashLevels, outcome \in ConnectOutcomes :
        InitWith(ps, [BaseMarket EXCEPT !.cash = cash], outcome)
NextSwan ==
    \/ Activate
    \/ DayRollover
SpecSwan == InitSwan /\ [][NextSwan]_vars

\* The smart-fill loop against a broker that fills and cancels on its own
InitAsyncFill ==
    \E mkt \in {[BaseMarket EXCEPT !.bid = 100, !.ask = 100 + spread] : spread \in {2, 12}} :
        InitWith(<<>>, mkt, "connected")
NextAsyncFill ==
    \/ SmartFillBegin
    \/ SmartFillPlace
    \/ SmartFillCheck
    \/ BrokerFill
    \/ BrokerCancel
SpecAsyncFill == InitAsyncFill /\ [][NextAsyncFill]_vars

\* The decision counter under the scheduler thread and a dashboard thread
InitThreads == InitWith(<<>>, BaseMarket, "connected")
NextThreads ==
    \/ RecordDecision
    \/ DashboardRebuild
    \/ DashboardStore
    \/ DayRollover
SpecThreads == InitThreads /\ [][NextThreads]_vars

\* ===== claims

\* The entry rules that fail in a state, named by the reason each one gives
FailingRules(ps, mkt, strike, black_swan, breaker, wins) ==
    (IF black_swan THEN {"Black Swan Protocol active"} ELSE {})
    \cup (IF mkt.iv_rank < iv_rank_min THEN {"IV Rank"} ELSE {})
    \cup (IF mkt.current_iv < iv_min THEN {"IV"} ELSE {})
    \cup (IF ~check_liquidity(mkt) THEN {"Avg volume"} ELSE {})
    \cup (IF ~check_valuation(mkt.info, strike).meets_value THEN {"Valuation"} ELSE {})
    \cup (IF strike * 100 * 100 > account_value * max_position_pct
          THEN {"Position too large for account"} ELSE {})
    \cup (IF ~check_sector_concentration(ps, mkt, strike * 100)
          THEN {"Sector exposure"} ELSE {})
    \cup (IF days_to_earnings(mkt) <= earnings_buffer_days
          THEN {"Too close to earnings"} ELSE {})
    \cup (IF breaker THEN {"Circuit breaker active"} ELSE {})
    \cup (IF wins >= win_streak_caution THEN {"Win streak caution"} ELSE {})

\* The rules failing for the check_entry_criteria call just made
FailingNow ==
    FailingRules(positions, market, call.strike, bs_active, circuit_breaker_active,
                 consecutive_wins)

EntryReturned == call.op = "check_entry_criteria" /\ ~call.ret.raised

\* C1: check_entry_criteria returns meets_criteria = true exactly when every
\* entry rule passes in the current state; when at least one rule fails it
\* returns meets_criteria = false.
C1_ApprovesIffEveryRulePasses ==
    EntryReturned => (call.ret.meets_criteria <=> FailingNow = {})
C1_Witness ==
    /\ EntryReturned /\ ~call.ret.meets_criteria
    /\ FailingNow = {"Sector exposure"}

\* C2: the issues list check_entry_criteria returns holds a reason for every
\* rule that fails, also when the Black Swan Protocol is active.
C2_IssuesListEveryFailingRule ==
    EntryReturned => \A rule \in FailingNow :
                         \E k \in 1..Len(call.ret.issues) : call.ret.issues[k] = rule

\* C3: after any sequence of record_decision calls, reads and day rollovers,
\* the number of decisions dated today with executed = true never exceeds
\* max_daily_decisions.
C3_ExecutedNeverExceedsMax == ExecutedToday(decisions, today) <= max_daily_decisions

\* The cap is reached and a further execution attempt has just been refused
C3_Witness ==
    /\ ExecutedToday(decisions, today) = max_daily_decisions
    /\ call.op = "record_decision" /\ call.executed /\ ~call.ret

\* C4: once max_daily_decisions decisions are recorded as executed today,
\* record_decision(executed=True) returns False and leaves the list unchanged,
\* while record_decision(executed=False) returns True and appends exactly one
\* pending decision.
C4_RefusedAtCapPendingAllowed ==
    [][(/\ ExecutedToday(decisions, today) = max_daily_decisions
        /\ call'.op = "record_decision")
       => IF call'.executed
          THEN ~call'.ret /\ decisions' = decisions
          ELSE /\ call'.ret
               /\ Len(decisions') = Len(decisions) + 1
               /\ SubSeq(decisions', 1, Len(decisions)) = decisions
               /\ ~decisions'[Len(decisions')].executed]_vars

\* At the cap, a pending decision has been recorded after a refused execution
C4_Witness ==
    /\ ExecutedToday(decisions, today) = max_daily_decisions
    /\ call.op = "record_decision" /\ ~call.executed /\ call.ret
    /\ Len(decisions) = max_daily_decisions + 1
    /\ ~decisions[Len(decisions)].executed

ExecutionPaths == {"execute_afternoon_trades", "sell_put", "roll_position",
                   "close_position"}

\* C5: while the executed count for today equals max_daily_decisions, no
\* execution path (the afternoon adjustment pass, sell_put, roll_position,
\* close_position) places a broker order.
C5_NoOrderAtCap ==
    call.op \in ExecutionPaths =>
        \A k \in 1..Len(orders) : orders[k].budget_used < max_daily_decisions

\* C6: the evaluation pass in which check_activation_conditions sees VIX > 50,
\* correlation > 0.90 or a one-day decline below -20% leaves the Black Swan
\* Protocol active.
C6_ActivatesOnTrigger ==
    (call.op = "check_activation_conditions" /\ call.trigger) => bs_active

\* C7: a circuit-breaker check made while drawdown from peak >= 20%, the
\* trailing-5-day P&L <= -10% of the account, or 3 days in a row lost money
\* finds the breaker active.
C7_BreakerTripsOnTrigger ==
    (call.op = "check_circuit_breaker" /\ call.trigger) => call.ret.active

DeltaAndTime(p) ==
    /\ p.secType = "OPT"
    /\ p.greeks /\ Abs(p.delta) > roll_delta_threshold
    /\ DTE(p, today) <= roll_dte

\* The actions check_adjustments_needed reported for position i
ActionsFor(i) ==
    {call.ret.adjustments[k].action :
        k \in {j \in 1..Len(call.ret.adjustments) : call.ret.adjustments[j].position = i}}

\* C9: an option position with |delta| > 0.50 and DTE <= 21 at once gets
\* ROLL_DEFENSIVE, never ROLL_TIME, from check_adjustments_needed and from
\* check_roll_decision.
C9_DefensiveBeforeTime ==
    /\ (call.op = "check_roll_decision" /\ DeltaAndTime(positions[call.position]))
           => call.ret = "ROLL_DEFENSIVE"
    /\ (call.op = "check_adjustments_needed" /\ ~call.ret.raised)
           => \A i \in 1..Len(positions) :
                  DeltaAndTime(positions[i]) => ActionsFor(i) = {"ROLL_DEFENSIVE"}
C9_Witness ==
    /\ call.op = "check_adjustments_needed" /\ ~call.ret.raised
    /\ \E i \in 1..Len(positions) :
           /\ DeltaAndTime(positions[i])
           /\ DTE(positions[i], today) = roll_dte
           /\ Abs(positions[i].delta) = roll_delta_threshold + 1
           /\ ActionsFor(i) = {"ROLL_DEFENSIVE"}

\* C10: check_adjustments_needed emits none of ROLL_DEFENSIVE, ROLL_TIME,
\* ROLL_POSITION, CLOSE_POSITION for a long option position.
C10_OnlyShortOptionsRolled ==
    (call.op = "check_adjustments_needed" /\ ~call.ret.raised)
        => \A i \in 1..Len(positions) :
               (positions[i].secType = "OPT" /\ positions[i].position > 0)
                   => ActionsFor(i) \cap {"ROLL_DEFENSIVE", "ROLL_TIME", "ROLL_POSITION",
                                          "CLOSE_POSITION"} = {}

C12_NearTermClosedOnActivation ==
    (call.op = "activate" /\ call.ret # "already_active")
        => \A i \in 1..Len(positions) :
               (positions[i].secType = "OPT" /\ DTE(positions[i], today) < 14)
                   => \E k \in 1..Len(orders) :
                          orders[k].contract = i /\ orders[k].via = "close_position"

\* C13: a check_recovery_conditions call advances recovery_stage by at most
\* one and by nothing while the protocol is inactive, so the stages come in
\* the order 0, 1, 2, 3, 4; recovery_stage stays within 0..4.
C13_StagesInOrder ==
    [][/\ recovery_stage' \in 0..4
       /\ call'.op = "check_recovery_conditions"
              => /\ recovery_stage' \in {recovery_stage, recovery_stage + 1}
                 /\ ~bs_active => recovery_stage' = recovery_stage
                 /\ call'.ret = "advanced" => recovery_stage' = recovery_stage + 1]_vars
C13_Witness ==
    /\ call.op = "check_recovery_conditions" /\ call.ret = "advanced"
    /\ recovery_stage = 4 /\ ~bs_active

\* C14: stage k of the recovery leaves position_size_multiplier at 0.25, 0.50,
\* 0.75, 1.00 for k = 1, 2, 3, 4; stage 4 leaves the protocol inactive; while
\* the protocol is inactive the multiplier is 1.0.
C14_StageMultiplier ==
    /\ recovery_stage \in 1..4 => position_size_multiplier = 25 * recovery_stage
    /\ recovery_stage = 4 => ~bs_active
    /\ ~bs_active => position_size_multiplier = 100
C14_Witness ==
    /\ call.op = "check_recovery_conditions" /\ call.ret = "advanced"
    /\ recovery_stage = 3 /\ bs_active /\ position_size_multiplier = 75

\* C15: a profitable result adds one to consecutive_wins and a losing result
\* sets it to 0 and the sizing multiplier to 1.0 in the same call, so the
\* counter is the number of profitable results since the last loss; the
\* multiplier is 1.0 below 8 wins, 0.75 from 8 to 9 and 0.5 from 10 on.
C15_WinStreakSizing ==
    /\ [](sizing_adjustment = IF consecutive_wins >= 10 THEN 50
                              ELSE IF consecutive_wins >= 8 THEN 75
                              ELSE 100)
    /\ [][call'.op = "record_trade_result"
          => IF call'.profitable
             THEN consecutive_wins' = consecutive_wins + 1
             ELSE consecutive_wins' = 0 /\ sizing_adjustment' = 100]_vars
C15_Witness ==
    /\ call.op = "record_trade_result" /\ ~call.profitable
    /\ consecutive_wins = 0 /\ sizing_adjustment = 100 /\ call.ret = 100
    /\ call.streak >= 10

\* The documented trading window: Tuesday to Thursday, 10:00-11:00 or 14:00-15:00
TradingWindow(weekday, minute) ==
    /\ weekday \in {1, 2, 3}
    /\ (600 <= minute /\ minute <= 660) \/ (840 <= minute /\ minute <= 900)

OrderOperations == {"sell_put", "sell_covered_call", "roll_position", "close_position"}

\* C16: sell_put, sell_covered_call, roll_position and close_position place no
\* order when the current time is outside the trading window.
C16_NoOrderOutsideWindow ==
    (call.op \in OrderOperations /\ ~TradingWindow(today % 7, call.minute))
        => orders = <<>>

FillReturned == call.op = "smart_fill_order"

\* The broker calls of the _smart_fill_order request just made
FillEvents == call.events

\* The quote on the passive side of the request, in hundredths of a cent
PassiveQuote == 100 * (IF call.action = "SELL" THEN market.bid ELSE market.ask)

\* What C18 says of the orders and of the result, the price steps apart:
\* at most 3 orders; every order but the first comes right after the cancel
\* of the one before; a fill at attempt n returns "filled" with the n-th order
\* the last call made; no fill returns "none" after 3 orders, each cancelled.
FillProtocol ==
    /\ Len(orders) <= 3
    /\ \A k \in 2..Len(FillEvents) :
           FillEvents[k].event = "placeOrder"
               => /\ FillEvents[k - 1].event = "cancelOrder"
                  /\ k > 2 /\ FillEvents[k - 2] = Event("placeOrder", FillEvents[k - 1].order)
    /\ call.filled_at > 0
           => /\ call.ret = "filled"
              /\ Len(orders) = call.filled_at
              /\ FillEvents[Len(FillEvents)].event = "placeOrder"
    /\ call.filled_at = 0
           => /\ call.ret = "none"
              /\ Len(orders) = 3
              /\ Len(FillEvents) = 6
              /\ \A k \in 1..3 : FillEvents[2 * k] = Event("cancelOrder", orders[k])

\* The price step from order k to order k + 1, toward the passive side
PriceStep(k) ==
    IF call.action = "SELL" THEN orders[k].price - orders[k + 1].price
    ELSE orders[k + 1].price - orders[k].price

C19_NeverPastPassiveQuote ==
    (FillReturned /\ market.bid <= market.ask)
        => \A k \in 1..Len(orders) :
               IF call.action = "SELL" THEN orders[k].price >= 100 * market.bid
               ELSE orders[k].price <= 100 * market.ask
C19_Witness ==
    /\ FillReturned /\ call.action = "BUY" /\ call.filled_at = 3
    /\ market.ask - market.bid = 7
    /\ orders[3].price = 100 * market.ask

\* The net credit of the roll_position call just made, in cents: the new
\* contract's ask less the old contract's bid
RollNetCredit == market.ask - positions[call.position].bid

\* C20: roll_position places no order when the net credit is <= 0; when it is
\* > 0 it places exactly two orders, the close of the old contract and then
\* the open of the new one.
C20_RollForCreditOnly ==
    call.op = "roll_position"
        => IF RollNetCredit <= 0 THEN orders = <<>> /\ call.ret = "none"
           ELSE /\ Len(orders) = 2
                /\ orders[1].contract = call.position /\ orders[1].action = "BUY"
                /\ orders[2].contract = 0 /\ orders[2].action = "SELL"
                /\ orders[1].quantity = Abs(positions[call.position].position)
                /\ orders[2].quantity = orders[1].quantity
C20_Witness ==
    /\ call.op = "roll_position" /\ RollNetCredit = 10
    /\ Len(orders) = 2 /\ orders[1].action = "BUY" /\ orders[2].action = "SELL"

\* A market-data lookup of the check_entry_criteria call just made gave nothing:
\* no earnings table, no market price, or no average volume
LookupUnavailable ==
    \/ ~market.earnings_dates
    \/ market.info.regularMarketPrice = 0
    \/ market.avg_volume = 0

\* C21: check_entry_criteria does not approve when a market-data lookup it
\* uses is unavailable or fails; missing data never counts as a passing check.
C21_EntryFailsClosed ==
    (call.op = "check_entry_criteria" /\ LookupUnavailable) => ~call.ret.meets_criteria

\* The exposure of the candidate's sector once the orders of the sell_put call
\* just made are filled: existing short-option notional and stock value in the
\* sector plus strike x 100 x quantity, in dollars
ProjectedSectorExposure ==
    sector_exposure(positions, 1, market, market.info.sector)
        + call.strike * 100 * orders[1].quantity

SizeReturned == call.op = "calculate_position_size"

\* B of the call just made: floor(account_value x max_position_pct / (strike x 100))
BaseContracts == (account_value * max_position_pct) \div (call.strike * 100 * 100)

\* r of the call just made, in hundredths: 0.75 in a BEAR regime, else 1
RegimeFactor == IF detect_market_regime(market) = "BEAR" THEN 75 ELSE 100

\* max(1, n)
AtLeastOne(n) == IF n > 1 THEN n ELSE 1

\* C23 as amended: _calculate_position_size returns
\* max(1, floor(floor(floor(B x r) x w) x m)), rounding down after each factor.
C23_SizeFlooredPerFactor ==
    SizeReturned
        => call.ret = AtLeastOne((((((BaseContracts * RegimeFactor) \div 100)
                                       * sizing_adjustment) \div 100)
                                     * position_size_multiplier) \div 100)
C23_Witness ==
    /\ SizeReturned /\ BaseContracts = 9
    /\ RegimeFactor = 100 /\ sizing_adjustment = 75 /\ position_size_multiplier = 75
    /\ call.ret = 4

\* C23: _calculate_position_size returns max(1, floor(B x r x w x m)).
C23_SizeFlooredOnce ==
    SizeReturned
        => call.ret = AtLeastOne((BaseContracts * RegimeFactor * sizing_adjustment
                                      * position_size_multiplier) \div 1000000)

\* C24: every activation of the Black Swan Protocol hands a CRITICAL alert to
\* the alert manager: activate() never leaves the protocol active without one,
\* also when closing positions fails.
C24_ActivationAlwaysAlerts ==
    (call.op = "activate" /\ call.ret # "already_active" /\ bs_active)
        => \E k \in 1..Len(alerts) : alerts[k] = "CRITICAL"

SelectionReturned == call.op = "identify_positions_to_close"

\* The positions the identify_positions_to_close call just made selected
Selected == call.ret

\* The cash the selection has to raise
Shortfall == call.required_cash - market.cash

TechFinancial(i) ==
    get_sector(market, positions[i].symbol) \in {"Technology", "Financial Services"}

\* The estimated value of the first k selected positions
RECURSIVE SelectedValue(_)
SelectedValue(k) ==
    IF k = 0 THEN 0
    ELSE SelectedValue(k - 1) + estimated_value(positions[Selected[k]])

\* C25: identify_positions_to_close selects nothing when cash meets 30% of the
\* account value; otherwise it selects technology/financial positions first
\* and any other position only after all of those, and it stops as soon as
\* the estimated value selected covers the shortfall or no position is left.
C25_CloseTechFinancialFirst ==
    SelectionReturned
        => /\ market.cash * 100 >= account_value * 30 => Selected = <<>>
           /\ \A k \in 1..Len(Selected) :
                  /\ Selected[k] \in 1..Len(positions)
                  /\ \A j \in 1..(k - 1) : Selected[j] # Selected[k]
                  /\ ~TechFinancial(Selected[k])
                         => \A i \in 1..Len(positions) :
                                TechFinancial(i)
                                    => \E j \in 1..(k - 1) : Selected[j] = i
                  /\ k < Len(Selected) => SelectedValue(k) < Shortfall
           /\ Shortfall > 0
                  => \/ SelectedValue(Len(Selected)) >= Shortfall
                     \/ Len(Selected) = Len(positions)
C25_Witness ==
    /\ SelectionReturned /\ Shortfall = 6600
    /\ Len(positions) = 3 /\ ~TechFinancial(1) /\ TechFinancial(2) /\ TechFinancial(3)
    /\ Selected = <<2, 3>>
    /\ SelectedValue(1) = 5000 /\ SelectedValue(2) = 14000

CloseOrdersFor(i) == {k \in 1..Len(orders) : orders[k].contract = i}

\* C27: one Black Swan activation places at most one close order for each
\* broker position, also for a position that is both inside 14 days of its
\* expiry and selected to cover the cash shortfall.
C27_OneClosePerPosition ==
    (call.op = "activate" /\ call.ret # "already_active")
        => \A i \in 1..Len(positions) : Cardinality(CloseOrdersFor(i)) <= 1

\* C28: once the TradeExecutor is constructed, whatever the outcome of its
\* connection attempts, the monitor's Black Swan Protocol has the executor
\* attached.
C28_ExecutorAttached == bs_executor

\* The orders of the request in progress that the broker has filled
FilledOrders == {k \in 1..Len(working) : working[k].status = "Filled"}

\* C29: with fills arriving on their own, at most one order of a
\* _smart_fill_order request is ever filled, so the filled quantity never
\* exceeds the quantity asked for.
C29_AtMostOneFill ==
    call.op = "smart_fill_steps"
        => Cardinality(FilledOrders) * call.quantity <= call.quantity

\* C30: with dashboard threads rebuilding the decision list while the
\* scheduler thread records decisions, no decision of today is lost: within a
\* day the number of decisions in the list, and of executed ones, never drops.
C30_NoDecisionLost ==
    [][today' = today
       => /\ ExecutedToday(decisions', today) >= ExecutedToday(decisions, today)
          /\ Len(reset_daily_count(decisions', today))
                 >= Len(reset_daily_count(decisions, today))]_vars
====
